---------------------------- MODULE Spec2Model ----------------------------
(***************************************************************************)
(* A model of the oars crate: Bose and Bush orthogonal-array construction  *)
(* (sequential and parallel), parameter validation, the OA verifier, the   *)
(* SOA verifier and the He-Tang / Liu-Liu SOA constructors.                *)
(*                                                                         *)
(* An Array2 is a record [nrows, ncols, data] with data a function on      *)
(* (0..nrows-1) \X (0..ncols-1); indices are 0-based as in the source.     *)
(***************************************************************************)
EXTENDS Integers, Sequences, FiniteSets, TLC

VARIABLES
    pc,        \* position of the caller in the pipeline
    ctor,      \* the constructor struct (kind, prime_base, strength, dimensions)
    env,       \* the build: overflow_checks (debug profile), wide (T holds usize::MAX)
    via,       \* which construction entry point produced `result`
    checked,   \* result of BoseChecked::verify / BushChecked::verify
    allocs,    \* number of matrices allocated by Array2::zeros so far
    result,    \* OAResult of gen / gen_par
    verdict,   \* what oa::verify returned
    par,       \* blocks and finished tasks of a running gen_par
    soaRes,    \* SOAResult of an SOA constructor, or the SOA under verification
    soaVerdict,\* what soa::verify returned
    hist,      \* bookkeeping for the SOA under verification (parent verdict, edits)
    call,      \* a call of a utility function: its name and arguments
    ret        \* what the utility function returned

vars == <<pc, ctor, env, via, checked, allocs, result, verdict, par, soaRes,
          soaVerdict, hist, call, ret>>

-----------------------------------------------------------------------------
(* Bounds of the model *)

MaxBase == 5
MaxStrength == 3
MaxRows == 27
NegRange == 1

\* gen_par is explored task by task for arrays of at most MaxParRows rows
MaxParRows == 4

\* the OA verifier is run on every small array of at most MaxSmallRows rows
\* and MaxSmallCols columns with cells in 0..MaxLevels, and on every array of
\* WideRows rows and WideCols columns with cells in 0..(WideLevels - 1)
MaxLevels == 2
MaxVerifyStrength == 2
MaxFactors == 3
MaxIndex == 2
MaxSmallRows == 3
MaxSmallCols == 2
WideRows == 4
WideCols == 3
WideLevels == 2

\* the SOA verifier is run on arrays up to MaxPerturb cell changes away from
\* the seed arrays
MaxPerturb == 1

-----------------------------------------------------------------------------
(* Arithmetic helpers *)

RECURSIVE Pow(_, _)
Pow(b, e) == IF e <= 0 THEN 1 ELSE b * Pow(b, e - 1)

RECURSIVE PowMod(_, _, _)
PowMod(b, e, n) ==
    IF e = 0 THEN 1 % n
    ELSE LET h == PowMod(b, e \div 2, n)
         IN  IF e % 2 = 0 THEN (h * h) % n ELSE (h * h * b) % n

Min(a, b) == IF a < b THEN a ELSE b

IsPrime(n) == n > 1 /\ \A d \in 2..(n - 1) : n % d # 0

\* usize::MAX % p, the value of `T::from(0usize - 1) % p` when the subtraction
\* wraps (64-bit usize) and T is wide enough to hold the wrapped value.
UsizeMaxMod(p) == (PowMod(2, 64, p) + p - 1) % p

-----------------------------------------------------------------------------
(* ndarray::Array2 *)

Cells(n, m) == (0..(n - 1)) \X (0..(m - 1))

zeros(n, m) == [nrows |-> n, ncols |-> m, data |-> [c \in Cells(n, m) |-> 0]]

NoArray == zeros(0, 0)

-----------------------------------------------------------------------------
(* utils.rs *)

RECURSIVE to_base_fixed_loop(_, _, _)
to_base_fixed_loop(new_num, base, remaining) ==
    IF remaining <= 0 THEN << >>
    ELSE <<new_num % base>> \o to_base_fixed_loop(new_num \div base, base, remaining - 1)

\* a faulty variant of to_base_fixed: one digit short
to_base_fixed_one_short(num, base, degree) == to_base_fixed_loop(num, base, degree - 1)

\* least-significant digit first, exactly `degree` digits
to_base_fixed(num, base, degree) == to_base_fixed_loop(num, base, degree)

RECURSIVE poly_eval_loop(_, _, _, _)
poly_eval_loop(coeffs, base, k, acc) ==
    IF k = 0 THEN acc
    ELSE poly_eval_loop(coeffs, base, k - 1, (acc * base) + coeffs[k])

\* Horner's rule over the coefficients in reverse order
poly_eval(coeffs, base) == poly_eval_loop(coeffs, base, Len(coeffs), 0)

-----------------------------------------------------------------------------
(* oa.rs: the OA struct and results *)

OA(levels, strength, factors, index, points) ==
    [levels |-> levels, strength |-> strength, factors |-> factors,
     index |-> index, points |-> points]

NoOA == OA(0, 0, 0, 0, NoArray)

NoResult == [tag |-> "None", err |-> "", oa |-> NoOA]
Ok(oa) == [tag |-> "Ok", err |-> "", oa |-> oa]
Err(kind) == [tag |-> "Err", err |-> kind, oa |-> NoOA]
Panic == [tag |-> "Panic", err |-> "", oa |-> NoOA]

-----------------------------------------------------------------------------
(* Parameter validation *)

\* a faulty variant of BoseChecked::verify: dimensions limited to the base
BoseChecked_verify_dims_off(c) ==
    IF c.dimensions < 2 \/ c.dimensions > c.prime_base
        THEN Err("InvalidParams")
    ELSE IF ~IsPrime(c.prime_base) THEN Err("InvalidParams")
    ELSE Ok(NoOA)

\* BoseChecked::verify: the dimensions test comes first, then is_prime on the
\* base converted with to_u64().unwrap()
BoseChecked_verify(c) ==
    IF c.dimensions < 2 \/ c.dimensions > c.prime_base + 1
        THEN Err("InvalidParams")
    ELSE IF c.prime_base < 0 THEN Panic
    ELSE IF ~IsPrime(c.prime_base) THEN Err("InvalidParams")
    ELSE Ok(NoOA)

\* Bose::verify_params of the validating gen / gen_par
Bose_verify_params(c) == BoseChecked_verify(c)

\* BushChecked::verify: is_prime(prime_base.to_u64().unwrap()) comes first
BushChecked_verify(c) ==
    IF c.prime_base < 0 THEN Panic
    ELSE IF ~IsPrime(c.prime_base) THEN Err("InvalidParams")
    ELSE IF c.dimensions < 2 \/ c.dimensions > c.prime_base + 1
        THEN Err("InvalidParams")
    ELSE IF c.strength < 1 \/ c.strength > c.prime_base
        THEN Err("InvalidParams")
    ELSE Ok(NoOA)

-----------------------------------------------------------------------------
(* Bose construction, sequential *)

\* a faulty variant of the first loop: the two seed columns exchanged
Bose_seed_cell_swapped(p, i, j) == IF j = 0 THEN i % p ELSE i \div p

\* first loop of Bose::gen: columns 0 and 1
Bose_seed_cell(p, i, j) == IF j = 0 THEN i \div p ELSE i % p

\* a faulty variant of the second loop: slope j instead of j - 1
Bose_dep_cell_slope_off(p, c0, c1, j) == (c0 + j * c1) % p

\* second loop of Bose::gen: column j >= 2 from the two seed cells of the row
Bose_dep_cell(p, c0, c1, j) == (c0 + (j - 1) * c1) % p

Bose_points(c) ==
    LET p == c.prime_base
        n == Pow(p, 2)
        seed == [cell \in Cells(n, c.dimensions) |->
                    IF cell[2] < 2 THEN Bose_seed_cell(p, cell[1], cell[2]) ELSE 0]
    IN  [nrows |-> n, ncols |-> c.dimensions,
         data |-> [cell \in Cells(n, c.dimensions) |->
                    IF cell[2] >= 2
                        THEN Bose_dep_cell(p, seed[<<cell[1], 0>>], seed[<<cell[1], 1>>], cell[2])
                        ELSE seed[cell]]]

Bose_OA(c, points) == OA(c.prime_base, 2, c.dimensions, 1, points)

\* Bose::gen (unchecked): writing columns 0 and 1 of a matrix with fewer than
\* two columns indexes out of bounds as soon as there is a row
Bose_gen(c) ==
    IF Pow(c.prime_base, 2) > 0 /\ c.dimensions < 2 THEN Panic
    ELSE Ok(Bose_OA(c, Bose_points(c)))

-----------------------------------------------------------------------------
(* Bush construction, sequential *)

\* a faulty variant of the polynomial columns: no reduction modulo the base
Bush_poly_cell_no_mod(c, i, j) ==
    poly_eval(to_base_fixed(i, c.prime_base, c.strength), j)

Bush_poly_cell(c, i, j) ==
    poly_eval(to_base_fixed(i, c.prime_base, c.strength), j) % c.prime_base

\* `T::from(i - 1).unwrap() % prime_base` with i a usize: at i = 0 the
\* subtraction overflows.  With overflow checks it panics; otherwise it wraps
\* to usize::MAX, which T::from rejects unless T is wide enough.
Bush_last_panics(e, p, i) ==
    \/ i = 0 /\ (e.overflow_checks \/ ~e.wide)
    \/ p = 0

Bush_last_cell(p, i) == IF i = 0 THEN UsizeMaxMod(p) ELSE (i - 1) % p

Bush_rows(c) == Pow(c.prime_base, c.strength)

Bush_has_last(c) == c.dimensions = c.prime_base + 1

Bush_points(c) ==
    LET p == c.prime_base
        n == Bush_rows(c)
        poly_dims == Min(c.dimensions, p)
    IN  [nrows |-> n, ncols |-> c.dimensions,
         data |-> [cell \in Cells(n, c.dimensions) |->
                    IF cell[2] < poly_dims THEN Bush_poly_cell(c, cell[1], cell[2])
                    ELSE IF Bush_has_last(c) /\ cell[2] = p THEN Bush_last_cell(p, cell[1])
                    ELSE 0]]

Bush_OA(c, points) == OA(c.prime_base, c.strength, c.dimensions, 1, points)

\* Bush::gen (unchecked)
Bush_gen(c, e) ==
    IF Bush_rows(c) > 0 /\ Bush_has_last(c) /\ Bush_last_panics(e, c.prime_base, 0)
        THEN Panic
    ELSE Ok(Bush_OA(c, Bush_points(c)))

-----------------------------------------------------------------------------
(* oa.rs: verify *)

RECURSIVE SortedSeq(_)
SortedSeq(S) ==
    IF S = {} THEN << >>
    ELSE LET lo == CHOOSE x \in S : \A y \in S : x <= y
         IN  <<lo>> \o SortedSeq(S \ {lo})

\* a faulty variant of combinations: windows of k adjacent columns only
combinations_adjacent(n, k) ==
    {[j \in 1..k |-> first + j - 1] : first \in 0..(n - k)}

\* itertools: (0..n).combinations(k), each combination in increasing order
combinations(n, k) ==
    {SortedSeq(S) : S \in {X \in SUBSET (0..(n - 1)) : Cardinality(X) = k}}

RECURSIVE tuple_index_from(_, _, _, _)
tuple_index_from(oa, i, selection, k) ==
    IF k > Len(selection) THEN 0
    ELSE oa.points.data[<<i, selection[k]>>] * Pow(oa.levels, k - 1)
         + tuple_index_from(oa, i, selection, k + 1)

\* sum over (power, column) of points[i, column] * levels^power
tuple_index(oa, i, selection) == tuple_index_from(oa, i, selection, 1)

tuple_count(oa, selection, t) ==
    Cardinality({i \in 0..(oa.points.nrows - 1) : tuple_index(oa, i, selection) = t})

selection_ok(oa, selection) ==
    \A t \in 0..(Pow(oa.levels, oa.strength) - 1) :
        tuple_count(oa, selection, t) = oa.index

\* oa::verify returns a plain bool: false when the column count differs from
\* `factors`, false when some tuple count differs from `index`, else true
oa_verify(oa) ==
    IF oa.points.ncols # oa.factors THEN FALSE
    ELSE \A selection \in combinations(oa.factors, oa.strength) :
            selection_ok(oa, selection)

-----------------------------------------------------------------------------
(* soa.rs: the SOA struct, sum_perms and verify *)

SOA(strength, base, points) == [strength |-> strength, base |-> base, points |-> points]

NoSOA == SOA(0, 0, NoArray)

NoSoaResult == [tag |-> "None", err |-> "", soa |-> NoSOA]
SoaOk(soa) == [tag |-> "Ok", err |-> "", soa |-> soa]
SoaErr(kind) == [tag |-> "Err", err |-> kind, soa |-> NoSOA]
SoaPanic == [tag |-> "Panic", err |-> "", soa |-> NoSOA]

RECURSIVE sum_perms_pushed(_, _, _)

\* a faulty variant of the loop: the recursion needs k < reduced_num
RECURSIVE sum_perms_loop_strict(_, _, _, _)
sum_perms_loop_strict(sum, reduced_num, arr, k) ==
    IF k > sum THEN << >>
    ELSE (IF k < reduced_num
              THEN sum_perms_pushed(sum, reduced_num - k, Append(arr, k))
              ELSE << >>)
         \o sum_perms_loop_strict(sum, reduced_num, arr, k + 1)

\* the `for k in prev..=sum` loop of sum_perms_helper: the vectors its
\* recursive calls push, in order
RECURSIVE sum_perms_loop(_, _, _, _)
sum_perms_loop(sum, reduced_num, arr, k) ==
    IF k > sum THEN << >>
    ELSE (IF k <= reduced_num
              THEN sum_perms_pushed(sum, reduced_num - k, Append(arr, k))
              ELSE << >>)
         \o sum_perms_loop(sum, reduced_num, arr, k + 1)

\* the vectors one call of sum_perms_helper pushes to `res`, in order: `arr`
\* itself when reduced_num = 0, then those of the loop from prev
sum_perms_pushed(sum, reduced_num, arr) ==
    (IF reduced_num = 0 THEN <<arr>> ELSE << >>)
        \o sum_perms_loop(sum, reduced_num, arr,
                          IF Len(arr) = 0 THEN 1 ELSE arr[Len(arr)])

sum_perms_helper(sum, reduced_num, arr, res) ==
    res \o sum_perms_pushed(sum, reduced_num, arr)

sum_perms(sum) == sum_perms_helper(sum, sum, << >>, << >>)

\* itertools: seq.iter().combinations(k): the subsequences of k elements taken
\* at increasing positions
iter_combinations(seq, k) ==
    {[j \in 1..k |-> seq[idx[j] + 1]] : idx \in combinations(Len(seq), k)}

\* `curr_strata.iter().combinations(curr_strata.len())`
strata_perms(curr_strata) == iter_combinations(curr_strata, Len(curr_strata))

\* multi_cartesian_product of the ranges 0..base^x, x over strata_perm
expected_combos(soa, strata_perm) ==
    LET top == Pow(soa.base, soa.strength)
    IN  {f \in [1..Len(strata_perm) -> 0..(top - 1)] :
            \A k \in 1..Len(strata_perm) : f[k] < Pow(soa.base, strata_perm[k])}

\* the reduced row: each chosen column divided by base^(strength - strata_pow);
\* zip stops at the shorter of strata_perm and col_combo
reduced_point(soa, i, strata_perm, col_combo) ==
    [k \in 1..Min(Len(strata_perm), Len(col_combo)) |->
        soa.points.data[<<i, col_combo[k]>>]
            \div Pow(soa.base, soa.strength - strata_perm[k])]

\* a faulty variant of the frequency test: equal frequency is not required
col_combo_ok_no_uniq(soa, strata_perm, col_combo) ==
    LET rows == 0..(soa.points.nrows - 1)
        expected == expected_combos(soa, strata_perm)
        point(i) == reduced_point(soa, i, strata_perm, col_combo)
        counter(e) == Cardinality({i \in rows : point(i) = e})
    IN  /\ \A i \in rows : point(i) \in expected
        /\ \A e \in expected : counter(e) >= 1

\* a faulty variant of the test of one column combination: rows whose
\* reduced point is not an expected combination are skipped
col_combo_ok_no_member(soa, strata_perm, col_combo) ==
    LET rows == 0..(soa.points.nrows - 1)
        expected == expected_combos(soa, strata_perm)
        point(i) == reduced_point(soa, i, strata_perm, col_combo)
        counter(e) == Cardinality({i \in rows : point(i) = e})
        uniq == {counter(e) : e \in expected}
    IN  /\ \A x \in uniq : x >= 1
        /\ Cardinality(uniq) <= 1

col_combo_ok(soa, strata_perm, col_combo) ==
    LET rows == 0..(soa.points.nrows - 1)
        expected == expected_combos(soa, strata_perm)
        point(i) == reduced_point(soa, i, strata_perm, col_combo)
        counter(e) == Cardinality({i \in rows : point(i) = e})
        uniq == {counter(e) : e \in expected}
    IN  /\ \A i \in rows : point(i) \in expected
        /\ \A x \in uniq : x >= 1
        /\ Cardinality(uniq) <= 1

\* soa::verify
soa_verify(soa) ==
    LET strata_exp == sum_perms(soa.strength)
    IN  \A s \in 1..Len(strata_exp) :
            \A strata_perm \in strata_perms(strata_exp[s]) :
                \A col_combo \in combinations(soa.points.ncols, Len(strata_perm)) :
                    col_combo_ok(soa, strata_perm, col_combo)

-----------------------------------------------------------------------------
(* constructors/soa.rs: He-Tang *)

\* number of column groups oa_to_goa builds: m = factors - 1,
\* m_prime = 2 * (m - 1) / (t - 1)
goa_groups(oa) == (2 * ((oa.factors - 1) - 1)) \div (oa.strength - 1)

\* oa_to_goa for a strength-3 OA with at least two factors
oa_to_goa(oa) ==
    LET m_prime == goa_groups(oa)
        t == oa.strength
        n == oa.points.nrows
    IN  [nrows |-> n, ncols |-> t * m_prime,
         data |-> [cell \in Cells(n, t * m_prime) |->
            LET oa_col_idx == cell[2] \div t
                off == cell[2] % t
            IN  IF off = 0 THEN oa.points.data[<<cell[1], oa_col_idx>>]
                ELSE IF off = 1 THEN oa.points.data[<<cell[1], oa.factors - 1>>]
                ELSE IF off = 2 THEN oa.points.data[<<cell[1], (oa_col_idx + 1) % m_prime>>]
                ELSE 0]]

\* the GOA columns goa_to_soa reads: (col * 3) + offset
goa_reads(strength, m_prime) ==
    {(col * 3) + offset : col \in 0..(m_prime - 1), offset \in 0..(strength - 1)}

goa_to_soa_oob(arr, strength, m_prime) ==
    arr.nrows > 0 /\ \E g \in goa_reads(strength, m_prime) : g >= arr.ncols

\* a faulty variant of the reduction: the power is one too high
RECURSIVE goa_to_soa_cell_pow_off(_, _, _, _, _, _)
goa_to_soa_cell_pow_off(arr, strength, levels, i, col, offset) ==
    IF offset >= strength THEN 0
    ELSE Pow(levels, strength - offset) * arr.data[<<i, (col * 3) + offset>>]
         + goa_to_soa_cell_pow_off(arr, strength, levels, i, col, offset + 1)

RECURSIVE goa_to_soa_cell(_, _, _, _, _, _)
goa_to_soa_cell(arr, strength, levels, i, col, offset) ==
    IF offset >= strength THEN 0
    ELSE Pow(levels, strength - offset - 1) * arr.data[<<i, (col * 3) + offset>>]
         + goa_to_soa_cell(arr, strength, levels, i, col, offset + 1)

goa_to_soa(arr, strength, levels, m_prime) ==
    [nrows |-> arr.nrows, ncols |-> m_prime,
     data |-> [cell \in Cells(arr.nrows, m_prime) |->
                goa_to_soa_cell(arr, strength, levels, cell[1], cell[2], 0)]]

\* HeTang::gen: m_prime = factors - 1 (usize), then oa_to_goa, which panics
\* unless strength = 3, then goa_to_soa, which panics on an index out of bounds
HeTang_gen(oa) ==
    IF oa.factors < 1 THEN SoaPanic
    ELSE IF oa.strength # 3 THEN SoaPanic
    ELSE IF oa.factors < 2 THEN SoaPanic
    ELSE LET m_prime == oa.factors - 1
             goa == oa_to_goa(oa)
         IN  IF goa_to_soa_oob(goa, oa.strength, m_prime) THEN SoaPanic
             ELSE SoaOk(SOA(oa.strength, oa.levels,
                            goa_to_soa(goa, oa.strength, oa.levels, m_prime)))

-----------------------------------------------------------------------------
(* constructors/liu_liu.rs: Liu-Liu *)

\* shape of r_1 in gen_even_r
r_1_dims(m, k, extra_col) == IF extra_col THEN <<m, 2 * k>> ELSE <<m, (2 * k) + 1>>

\* gen_even_r panics when a V_1 block is assigned into its one-cell slice (any
\* k >= 1: the slice is 1 x 1 or out of bounds, V_1 is t x 2), and when the d
\* vector is assigned to column 2k of a matrix with 2k columns
gen_even_r_panics(t, m, extra_col) ==
    LET k == m \div t
    IN  k >= 1 \/ extra_col

gen_even_r(t, m, extra_col) ==
    LET k == m \div t
        dims == r_1_dims(m, k, extra_col)
    IN  zeros(dims[1], dims[2])

\* `points * r`: the element-wise product of ndarray, both sides broadcast to
\* a common shape
broadcast_dim(a, b) == IF a = b THEN a ELSE IF a = 1 THEN b ELSE IF b = 1 THEN a ELSE -1

elementwise_mul(a, b) ==
    LET nr == broadcast_dim(a.nrows, b.nrows)
        nc == broadcast_dim(a.ncols, b.ncols)
        at(x, cell) == x.data[<<IF x.nrows = 1 THEN 0 ELSE cell[1],
                                IF x.ncols = 1 THEN 0 ELSE cell[2]>>]
    IN  [nrows |-> nr, ncols |-> nc,
         data |-> [cell \in Cells(nr, nc) |-> at(a, cell) * at(b, cell)]]

\* LiuLiu::gen: no test of the strength; every path ends in Ok or in a panic
LiuLiu_gen(oa) ==
    LET t == oa.strength
        m == oa.factors
    IN  IF t = 0 THEN SoaPanic
        ELSE LET q == m % t
                 extra_col == q >= (t \div 2)
             IN  IF gen_even_r_panics(t, m, extra_col) THEN SoaPanic
                 ELSE LET r == gen_even_r(t, m, extra_col)
                      IN  IF broadcast_dim(oa.points.nrows, r.nrows) = -1
                             \/ broadcast_dim(oa.points.ncols, r.ncols) = -1
                             THEN SoaPanic
                          ELSE SoaOk(SOA(t, oa.levels, elementwise_mul(oa.points, r)))

-----------------------------------------------------------------------------
(* The construction pipeline: states and inputs *)

BoolStr(b) == IF b THEN "true" ELSE "false"

ParamBases == (0 - NegRange)..MaxBase
ParamDims == (0 - NegRange)..(MaxBase + 2)
ParamStrengths == (0 - NegRange)..MaxStrength

\* the Bose struct has no strength field; 2 is the strength of its arrays
Ctors ==
    [kind : {"Bose"}, prime_base : ParamBases, strength : {2}, dimensions : ParamDims]
    \cup
    [kind : {"Bush"}, prime_base : ParamBases, strength : ParamStrengths,
     dimensions : ParamDims]

Envs == [overflow_checks : BOOLEAN, wide : BOOLEAN]

NoPar == [phase |-> "idle", initial_points |-> NoArray, points |-> NoArray,
         done1 |-> {}, done2 |-> {}, panicked |-> FALSE, writes |-> << >>]

NoHist == [method |-> "none", edits |-> 0, parent |-> "none"]

\* no utility call
NoCall == [fn |-> "none", num |-> 0, base |-> 0, degree |-> 0]
NoRet == [digits |-> << >>, value |-> 0, list |-> << >>, some |-> FALSE]

\* the unchecked constructors are modelled on non-negative parameters, and on
\* arrays of at most MaxRows rows
NonNeg(c) == c.prime_base >= 0 /\ c.strength >= 0 /\ c.dimensions >= 0

RowsOf(c) == Pow(c.prime_base, c.strength)

InGenDomain(c) == NonNeg(c) /\ RowsOf(c) <= MaxRows

Init ==
    /\ pc = "start"
    /\ ctor \in Ctors
    /\ env \in Envs
    /\ via = "none"
    /\ checked = NoResult
    /\ allocs = 0
    /\ result = NoResult
    /\ verdict = "none"
    /\ par = NoPar
    /\ soaRes = NoSoaResult
    /\ soaVerdict = "none"
    /\ hist = NoHist
    /\ call = NoCall
    /\ ret = NoRet

AfterResult(r) == IF r.tag = "Ok" THEN "built" ELSE IF r.tag = "Err" THEN "rejected" ELSE "panicked"

-----------------------------------------------------------------------------
(* Validation actions *)

BoseCheckedVerify ==
    /\ pc = "start"
    /\ ctor.kind = "Bose"
    /\ checked' = BoseChecked_verify(ctor)
    /\ pc' = IF checked'.tag = "Ok" THEN "checked"
             ELSE IF checked'.tag = "Err" THEN "rejected" ELSE "panicked"
    /\ UNCHANGED <<ctor, env, via, allocs, result, verdict, par, soaRes, soaVerdict, hist, call, ret>>

BushCheckedVerify ==
    /\ pc = "start"
    /\ ctor.kind = "Bush"
    /\ checked' = BushChecked_verify(ctor)
    /\ pc' = IF checked'.tag = "Ok" THEN "checked"
             ELSE IF checked'.tag = "Err" THEN "rejected" ELSE "panicked"
    /\ UNCHANGED <<ctor, env, via, allocs, result, verdict, par, soaRes, soaVerdict, hist, call, ret>>

-----------------------------------------------------------------------------
(* Sequential construction actions *)

\* Bose::gen of the unchecked struct, directly or after BoseChecked::verify
BoseGen ==
    /\ pc \in {"start", "checked"}
    /\ ctor.kind = "Bose"
    /\ InGenDomain(ctor)
    /\ via' = "gen"
    /\ allocs' = allocs + 1
    /\ result' = Bose_gen(ctor)
    /\ pc' = AfterResult(result')
    /\ UNCHANGED <<ctor, env, checked, verdict, par, soaRes, soaVerdict, hist, call, ret>>

\* the validating Bose::gen: verify_params, then the same construction
BoseGenValidating ==
    /\ pc = "start"
    /\ ctor.kind = "Bose"
    /\ RowsOf(ctor) <= MaxRows
    /\ via' = "gen_validating"
    /\ LET v == Bose_verify_params(ctor)
       IN  IF v.tag = "Ok"
               THEN /\ allocs' = allocs + 1
                    /\ result' = Bose_gen(ctor)
               ELSE /\ allocs' = allocs
                    /\ result' = v
    /\ pc' = AfterResult(result')
    /\ UNCHANGED <<ctor, env, checked, verdict, par, soaRes, soaVerdict, hist, call, ret>>

\* Bush::gen of the unchecked struct, directly or after BushChecked::verify
BushGen ==
    /\ pc \in {"start", "checked"}
    /\ ctor.kind = "Bush"
    /\ InGenDomain(ctor)
    /\ via' = "gen"
    /\ allocs' = allocs + 1
    /\ result' = Bush_gen(ctor, env)
    /\ pc' = AfterResult(result')
    /\ UNCHANGED <<ctor, env, checked, verdict, par, soaRes, soaVerdict, hist, call, ret>>

-----------------------------------------------------------------------------
(* Verification and SOA construction actions *)

Verify ==
    /\ pc = "built"
    /\ verdict' = BoolStr(oa_verify(result.oa))
    /\ pc' = "verified"
    /\ UNCHANGED <<ctor, env, via, checked, allocs, result, par, soaRes, soaVerdict, hist, call, ret>>

HeTangGen ==
    /\ pc \in {"built", "verified"}
    /\ soaRes' = HeTang_gen(result.oa)
    /\ hist' = [hist EXCEPT !.method = "HeTang"]
    /\ pc' = IF soaRes'.tag = "Ok" THEN "soa_built" ELSE "soa_failed"
    /\ UNCHANGED <<ctor, env, via, checked, allocs, result, verdict, par, soaVerdict, call, ret>>

LiuLiuGen ==
    /\ pc \in {"built", "verified"}
    /\ soaRes' = LiuLiu_gen(result.oa)
    /\ hist' = [hist EXCEPT !.method = "LiuLiu"]
    /\ pc' = IF soaRes'.tag = "Ok" THEN "soa_built" ELSE "soa_failed"
    /\ UNCHANGED <<ctor, env, via, checked, allocs, result, verdict, par, soaVerdict, call, ret>>

SoaVerify ==
    /\ pc = "soa_built"
    /\ soaRes.soa.base >= 1
    /\ soaRes.soa.strength >= 1
    /\ soaVerdict' = BoolStr(soa_verify(soaRes.soa))
    /\ pc' = "soa_verified"
    /\ UNCHANGED <<ctor, env, via, checked, allocs, result, verdict, par, soaRes, hist, call, ret>>

-----------------------------------------------------------------------------
(* Parallel construction: gen_par, one action per rayon task *)

concatenate(a, b) ==
    [nrows |-> a.nrows, ncols |-> a.ncols + b.ncols,
     data |-> [cell \in Cells(a.nrows, a.ncols + b.ncols) |->
                IF cell[2] < a.ncols THEN a.data[cell]
                ELSE b.data[<<cell[1], cell[2] - a.ncols>>]]]

ParBegin(c, first_cols, second_cols) ==
    [phase |-> IF c.kind = "Bose" THEN "seed" ELSE "rows",
     initial_points |-> zeros(RowsOf(c), first_cols),
     points |-> zeros(RowsOf(c), second_cols),
     done1 |-> {}, done2 |-> {}, panicked |-> FALSE, writes |-> << >>]

\* the log of the writes of the tasks: for every written cell of a block, the
\* tasks that assigned to it, in order
log_writes(w, block, cells, task) ==
    [k \in DOMAIN w \cup {<<block, c[1], c[2]>> : c \in cells} |->
        (IF k \in DOMAIN w THEN w[k] ELSE << >>)
            \o (IF k[1] = block /\ <<k[2], k[3]>> \in cells THEN <<task>> ELSE << >>)]

\* a faulty variant of the views: every task is handed the cell of column 0
task_view_first_col(cell) == <<cell[1], 0>>

\* the cell behind the view that the nested axis_iter_mut(Axis(1)) /
\* axis_iter_mut(Axis(0)) hands to task (row_idx, col_idx); `row[[row_idx; 0]]`
\* indexes that zero-dimensional view with an empty index
task_view(cell) == cell

\* Bose::gen_par of the unchecked struct, after BoseChecked::verify: the two
\* blocks are allocated before any task runs
BoseGenParStart ==
    /\ pc = "checked"
    /\ ctor.kind = "Bose"
    /\ RowsOf(ctor) <= MaxParRows
    /\ via' = "gen_par"
    /\ allocs' = allocs + 2
    /\ par' = ParBegin(ctor, 2, ctor.dimensions - 2)
    /\ pc' = "par"
    /\ UNCHANGED <<ctor, env, checked, result, verdict, soaRes, soaVerdict, hist, call, ret>>

\* the validating Bose::gen_par: verify_params, then the same construction
BoseGenParValidatingStart ==
    /\ pc = "start"
    /\ ctor.kind = "Bose"
    /\ RowsOf(ctor) <= MaxParRows
    /\ via' = "gen_par_validating"
    /\ LET v == Bose_verify_params(ctor)
       IN  IF v.tag = "Ok"
               THEN /\ allocs' = allocs + 2
                    /\ par' = ParBegin(ctor, 2, ctor.dimensions - 2)
                    /\ result' = result
                    /\ pc' = "par"
               ELSE /\ allocs' = allocs
                    /\ par' = par
                    /\ result' = v
                    /\ pc' = AfterResult(v)
    /\ UNCHANGED <<ctor, env, checked, verdict, soaRes, soaVerdict, hist, call, ret>>

\* one task of the first for_each: one cell of initial_points
BoseSeedTask ==
    /\ pc = "par"
    /\ par.phase = "seed"
    /\ \E cell \in Cells(par.initial_points.nrows, 2) \ par.done1 :
         par' = [par EXCEPT
                   !.initial_points.data[task_view(cell)] =
                       Bose_seed_cell(ctor.prime_base, cell[1], cell[2]),
                   !.done1 = @ \cup {cell},
                   !.writes = log_writes(@, "initial_points", {task_view(cell)}, cell)]
    /\ UNCHANGED <<pc, ctor, env, via, checked, allocs, result, verdict, soaRes, soaVerdict, hist, call, ret>>

\* a faulty variant of the first join: the second for_each starts while seed
\* tasks are still to run
BoseSeedJoin_early ==
    /\ pc = "par"
    /\ par.phase = "seed"
    /\ par' = [par EXCEPT !.phase = "rest"]
    /\ UNCHANGED <<pc, ctor, env, via, checked, allocs, result, verdict, soaRes, soaVerdict, hist, call, ret>>

\* the first for_each returns once all of its tasks have run
BoseSeedJoin ==
    /\ pc = "par"
    /\ par.phase = "seed"
    /\ par.done1 = Cells(par.initial_points.nrows, 2)
    /\ par' = [par EXCEPT !.phase = "rest"]
    /\ UNCHANGED <<pc, ctor, env, via, checked, allocs, result, verdict, soaRes, soaVerdict, hist, call, ret>>

\* one task of the second for_each: one cell of points, read from the row's
\* two cells of initial_points as they are now
BoseRestTask ==
    /\ pc = "par"
    /\ par.phase = "rest"
    /\ \E cell \in Cells(par.points.nrows, par.points.ncols) \ par.done2 :
         par' = [par EXCEPT
                   !.points.data[task_view(cell)] =
                       Bose_dep_cell(ctor.prime_base,
                                     par.initial_points.data[<<cell[1], 0>>],
                                     par.initial_points.data[<<cell[1], 1>>],
                                     cell[2] + 2),
                   !.done2 = @ \cup {cell},
                   !.writes = log_writes(@, "points", {task_view(cell)}, cell)]
    /\ UNCHANGED <<pc, ctor, env, via, checked, allocs, result, verdict, soaRes, soaVerdict, hist, call, ret>>

\* a faulty variant of the second join: the blocks are concatenated and
\* returned while dependent-column tasks are still to run
BoseConcat_early ==
    /\ pc = "par"
    /\ par.phase = "rest"
    /\ result' = Ok(Bose_OA(ctor, concatenate(par.initial_points, par.points)))
    /\ par' = [par EXCEPT !.phase = "joined"]
    /\ pc' = "built"
    /\ UNCHANGED <<ctor, env, via, checked, allocs, verdict, soaRes, soaVerdict, hist, call, ret>>

\* the second for_each returns; the two blocks are concatenated
BoseConcat ==
    /\ pc = "par"
    /\ par.phase = "rest"
    /\ par.done2 = Cells(par.points.nrows, par.points.ncols)
    /\ result' = Ok(Bose_OA(ctor, concatenate(par.initial_points, par.points)))
    /\ par' = [par EXCEPT !.phase = "joined"]
    /\ pc' = "built"
    /\ UNCHANGED <<ctor, env, via, checked, allocs, verdict, soaRes, soaVerdict, hist, call, ret>>

\* Bush::gen_par of the unchecked struct, after BushChecked::verify
BushGenParStart ==
    /\ pc = "checked"
    /\ ctor.kind = "Bush"
    /\ RowsOf(ctor) <= MaxParRows
    /\ via' = "gen_par"
    /\ allocs' = allocs + 1
    /\ par' = ParBegin(ctor, Min(ctor.dimensions, ctor.prime_base), 1)
    /\ pc' = "par"
    /\ UNCHANGED <<ctor, env, checked, result, verdict, soaRes, soaVerdict, hist, call, ret>>

\* one task of the first for_each: a whole row of initial_points
BushRowTask ==
    /\ pc = "par"
    /\ par.phase = "rows"
    /\ \E row \in (0..(par.initial_points.nrows - 1)) \ par.done1 :
         par' = [par EXCEPT
                   !.initial_points.data =
                       [cell \in DOMAIN @ |->
                          IF cell[1] = row THEN Bush_poly_cell(ctor, row, cell[2])
                          ELSE @[cell]],
                   !.done1 = @ \cup {row},
                   !.writes = log_writes(@, "initial_points",
                                         {cell \in DOMAIN par.initial_points.data :
                                             cell[1] = row}, row)]
    /\ UNCHANGED <<pc, ctor, env, via, checked, allocs, result, verdict, soaRes, soaVerdict, hist, call, ret>>

\* the first for_each returns: without the extra column the array is done,
\* with it last_col is allocated
BushRowsJoin ==
    /\ pc = "par"
    /\ par.phase = "rows"
    /\ par.done1 = 0..(par.initial_points.nrows - 1)
    /\ IF Bush_has_last(ctor)
           THEN /\ par' = [par EXCEPT !.phase = "last"]
                /\ allocs' = allocs + 1
                /\ result' = result
                /\ pc' = pc
           ELSE /\ par' = [par EXCEPT !.phase = "joined"]
                /\ allocs' = allocs
                /\ result' = Ok(Bush_OA(ctor, par.initial_points))
                /\ pc' = "built"
    /\ UNCHANGED <<ctor, env, via, checked, verdict, soaRes, soaVerdict, hist, call, ret>>

\* one task of the second for_each: one row of last_col, `row_idx - 1`
BushLastTask ==
    /\ pc = "par"
    /\ par.phase = "last"
    /\ \E row \in (0..(par.points.nrows - 1)) \ par.done2 :
         IF Bush_last_panics(env, ctor.prime_base, row)
             THEN par' = [par EXCEPT !.panicked = TRUE, !.done2 = @ \cup {row}]
             ELSE par' = [par EXCEPT
                            !.points.data[<<row, 0>>] = Bush_last_cell(ctor.prime_base, row),
                            !.done2 = @ \cup {row},
                            !.writes = log_writes(@, "points", {<<row, 0>>}, row)]
    /\ UNCHANGED <<pc, ctor, env, via, checked, allocs, result, verdict, soaRes, soaVerdict, hist, call, ret>>

\* the second for_each returns, or resumes the panic of one of its tasks
\* (the tasks not yet started may then never run); the blocks are stacked
BushStack ==
    /\ pc = "par"
    /\ par.phase = "last"
    /\ par.panicked \/ par.done2 = 0..(par.points.nrows - 1)
    /\ result' = IF par.panicked THEN Panic
                 ELSE Ok(Bush_OA(ctor, concatenate(par.initial_points, par.points)))
    /\ par' = [par EXCEPT !.phase = "joined"]
    /\ pc' = AfterResult(result')
    /\ UNCHANGED <<ctor, env, via, checked, allocs, verdict, soaRes, soaVerdict, hist, call, ret>>

Next ==
    \/ BoseCheckedVerify
    \/ BushCheckedVerify
    \/ BoseGen
    \/ BoseGenValidating
    \/ BushGen
    \/ BoseGenParStart
    \/ BoseGenParValidatingStart
    \/ BoseSeedTask
    \/ BoseSeedJoin
    \/ BoseRestTask
    \/ BoseConcat
    \/ BushGenParStart
    \/ BushRowTask
    \/ BushRowsJoin
    \/ BushLastTask
    \/ BushStack
    \/ Verify
    \/ HeTangGen
    \/ LiuLiuGen
    \/ SoaVerify

Spec == Init /\ [][Next]_vars

-----------------------------------------------------------------------------
(* Properties of the constructors and of their validation *)

PrimeNumber(n) == n >= 2 /\ ~ \E a, b \in 2..(n - 1) : a * b = n

ValidBose(c) ==
    /\ PrimeNumber(c.prime_base)
    /\ 2 <= c.dimensions
    /\ c.dimensions <= c.prime_base + 1

ValidBush(c) ==
    /\ PrimeNumber(c.prime_base)
    /\ 2 <= c.dimensions
    /\ c.dimensions <= c.prime_base + 1
    /\ 1 <= c.strength
    /\ c.strength <= c.prime_base

Constructed == via # "none" /\ pc \notin {"start", "checked", "par"}

SeqGen(c, e) == IF c.kind = "Bose" THEN Bose_gen(c) ELSE Bush_gen(c, e)

\* C1: for a prime base p and 2 <= dimensions <= p + 1, every Bose generator
\* (gen, validating gen, gen_par) returns an array, and the OA verifier
\* returns true on it.
C1_BoseVerifies ==
    (ctor.kind = "Bose" /\ ValidBose(ctor) /\ Constructed)
        => /\ result.tag = "Ok"
           /\ verdict # "none" => verdict = "true"

C1_Witness ==
    /\ ctor.kind = "Bose"
    /\ ctor.prime_base = 5
    /\ ctor.dimensions = 6
    /\ via = "gen"
    /\ pc = "verified"
    /\ verdict = "true"

\* C2: for a prime base p, 1 <= strength <= p and 2 <= dimensions <= p + 1
\* (dimensions = p + 1 included), Bush::gen returns an array and the OA
\* verifier returns true on it.
C2_BushVerifies ==
    (ctor.kind = "Bush" /\ ValidBush(ctor) /\ via = "gen" /\ Constructed)
        => /\ result.tag = "Ok"
           /\ verdict # "none" => verdict = "true"

\* C3: for every validated parameter set and every interleaving of the
\* tasks, gen_par returns an OA identical to the one gen returns.
C3_ParEqualsSeq ==
    (via = "gen_par" /\ par.phase = "joined")
        => /\ result.tag = "Ok"
           /\ SeqGen(ctor, env).tag = "Ok"
           /\ result.oa = SeqGen(ctor, env).oa

\* C4: Bose validation (BoseChecked::verify, the validating gen and gen_par)
\* succeeds exactly when the base is prime and 2 <= dimensions <= base + 1;
\* otherwise it returns InvalidParams, no array, and nothing was allocated.
C4_BoseValidation ==
    ctor.kind = "Bose" =>
        /\ checked # NoResult =>
              /\ checked.tag = "Ok" <=> ValidBose(ctor)
              /\ ~ValidBose(ctor) => checked = Err("InvalidParams")
        /\ (via \in {"gen_validating", "gen_par_validating"} /\ ~ValidBose(ctor)) =>
              /\ result = Err("InvalidParams")
              /\ result.oa = NoOA
              /\ allocs = 0
              /\ pc = "rejected"
        /\ (via \in {"gen_validating", "gen_par_validating"} /\ ValidBose(ctor)) =>
              /\ pc # "rejected"
              /\ pc # "panicked"
              /\ Constructed => result.tag = "Ok"

C4_Witness ==
    /\ ctor.kind = "Bose"
    /\ ctor.prime_base = 4
    /\ ctor.dimensions = 3
    /\ via = "gen_validating"
    /\ result = Err("InvalidParams")
    /\ allocs = 0

\* C5: BushChecked::verify succeeds exactly when the base is prime,
\* 2 <= dimensions <= base + 1 and 1 <= strength <= base; otherwise it
\* returns InvalidParams.
C5_BushValidation ==
    (ctor.kind = "Bush" /\ checked # NoResult) =>
        /\ checked.tag = "Ok" <=> ValidBush(ctor)
        /\ ~ValidBush(ctor) => checked = Err("InvalidParams")

\* C10: HeTang::gen and LiuLiu::gen on an OA whose strength is not 3 return
\* Err(UnsupportedParams): no SOA, no panic.
C10_UnsupportedStrength ==
    (hist.method \in {"HeTang", "LiuLiu"} /\ result.oa.strength # 3)
        => soaRes = SoaErr("UnsupportedParams")

-----------------------------------------------------------------------------
(* The OA verifier on given arrays *)

Matrices(n, m, top) == [nrows : {n}, ncols : {m}, data : [Cells(n, m) -> 0..top]]

SmallMatrices ==
    UNION {Matrices(n, m, MaxLevels) : n \in 0..MaxSmallRows, m \in 1..MaxSmallCols}

WideMatrices == Matrices(WideRows, WideCols, WideLevels - 1)

GivenOAs ==
    [levels : 1..MaxLevels, strength : 1..MaxVerifyStrength, factors : 1..MaxFactors,
     index : 1..MaxIndex, points : SmallMatrices]
    \cup
    [levels : {WideLevels}, strength : 1..MaxVerifyStrength, factors : {WideCols},
     index : 1..MaxIndex, points : WideMatrices]

InitVerify ==
    /\ pc = "built"
    /\ ctor \in [kind : {"given"}, prime_base : {0}, strength : {0}, dimensions : {0}]
    /\ env \in [overflow_checks : {TRUE}, wide : {TRUE}]
    /\ via = "given"
    /\ checked = NoResult
    /\ allocs = 0
    /\ result \in {Ok(oa) : oa \in GivenOAs}
    /\ verdict = "none"
    /\ par = NoPar
    /\ soaRes = NoSoaResult
    /\ soaVerdict = "none"
    /\ hist = NoHist
    /\ call = NoCall
    /\ ret = NoRet

NextVerify == Verify

SpecVerify == InitVerify /\ [][NextVerify]_vars

-----------------------------------------------------------------------------
(* The SOA verifier on given arrays and on their one-cell changes *)

FromRows(rows) ==
    [nrows |-> Len(rows), ncols |-> Len(rows[1]),
     data |-> [cell \in Cells(Len(rows), Len(rows[1])) |-> rows[cell[1] + 1][cell[2] + 1]]]

\* the 8 x 3 array of the tests of soa.rs (He and Tang)
HeTangExample ==
    SOA(3, 2, FromRows(<< <<0, 0, 0>>, <<2, 3, 6>>, <<3, 6, 2>>, <<1, 5, 4>>,
                          <<6, 2, 3>>, <<4, 1, 5>>, <<5, 4, 1>>, <<7, 7, 7>> >>))

TwoColumnExample ==
    SOA(3, 2, FromRows(<< <<0, 0>>, <<1, 2>>, <<2, 4>>, <<3, 6>>,
                          <<4, 1>>, <<5, 3>>, <<6, 5>>, <<7, 7>> >>))

SmallExample == SOA(2, 2, FromRows(<< <<0, 0>>, <<1, 2>>, <<2, 1>>, <<3, 3>> >>))

SmallInvalidExample == SOA(2, 2, FromRows(<< <<0, 0>>, <<1, 2>>, <<2, 1>>, <<3, 2>> >>))

BaseThreeExample ==
    SOA(2, 3, FromRows(<< <<0, 0>>, <<1, 3>>, <<2, 6>>, <<3, 1>>, <<4, 4>>,
                          <<5, 7>>, <<6, 2>>, <<7, 5>>, <<8, 8>> >>))

IndexTwoExample == SOA(1, 2, FromRows(<< <<0, 0>>, <<0, 1>>, <<1, 0>>, <<1, 1>> >>))

OneColumnExample == SOA(2, 2, FromRows(<< <<0>>, <<1>>, <<2>>, <<3>> >>))

\* a uniform column with one more row, whose cell is base^strength
OutOfRangeExample == SOA(1, 2, FromRows(<< <<0>>, <<1>>, <<2>> >>))

SoaSeeds ==
    {HeTangExample, TwoColumnExample, SmallExample, SmallInvalidExample,
     BaseThreeExample, IndexTwoExample, OneColumnExample, OutOfRangeExample}

InitSoa ==
    /\ pc = "soa_built"
    /\ ctor \in [kind : {"given"}, prime_base : {0}, strength : {0}, dimensions : {0}]
    /\ env \in [overflow_checks : {TRUE}, wide : {TRUE}]
    /\ via = "given"
    /\ checked = NoResult
    /\ allocs = 0
    /\ result = NoResult
    /\ verdict = "none"
    /\ par = NoPar
    /\ soaRes \in {SoaOk(soa) : soa \in SoaSeeds}
    /\ soaVerdict = "none"
    /\ hist = [method |-> "given", edits |-> 0, parent |-> "none"]
    /\ call = NoCall
    /\ ret = NoRet

\* the caller changes one cell of a verified array to a different value
Perturb ==
    /\ pc = "soa_verified"
    /\ hist.method = "given"
    /\ hist.edits < MaxPerturb
    /\ \E cell \in DOMAIN soaRes.soa.points.data :
         \E v \in 0..Pow(soaRes.soa.base, soaRes.soa.strength) :
            /\ v # soaRes.soa.points.data[cell]
            /\ soaRes' = [soaRes EXCEPT !.soa.points.data[cell] = v]
    /\ hist' = [hist EXCEPT !.edits = @ + 1, !.parent = soaVerdict]
    /\ soaVerdict' = "none"
    /\ pc' = "soa_built"
    /\ UNCHANGED <<ctor, env, via, checked, allocs, result, verdict, par, call, ret>>

NextSoa ==
    \/ SoaVerify
    \/ Perturb

SpecSoa == InitSoa /\ [][NextSoa]_vars

-----------------------------------------------------------------------------
(* Properties of the OA verifier *)

WellShaped(oa) == oa.points.ncols = oa.factors

InRange(oa) == \A cell \in DOMAIN oa.points.data : oa.points.data[cell] \in 0..(oa.levels - 1)

\* the definition of an orthogonal array: in every set of `strength` columns
\* every tuple of levels occurs in exactly `index` rows
IsOA(oa) ==
    \A S \in {X \in SUBSET (0..(oa.factors - 1)) : Cardinality(X) = oa.strength} :
        \A tup \in [S -> 0..(oa.levels - 1)] :
            Cardinality({i \in 0..(oa.points.nrows - 1) :
                            \A c \in S : oa.points.data[<<i, c>>] = tup[c]}) = oa.index

\* C6: on an OA whose column count equals factors and whose cells lie in
\* 0..levels-1, verify returns true exactly when every combination of
\* `strength` columns holds each of the levels^strength tuples in exactly
\* `index` rows.
C6_VerifyIffOA ==
    (pc = "verified" /\ via = "given" /\ WellShaped(result.oa) /\ InRange(result.oa))
        => (verdict = "true" <=> IsOA(result.oa))

C6_Witness ==
    /\ pc = "verified"
    /\ via = "given"
    /\ result.oa.strength = 2
    /\ result.oa.levels = 2
    /\ result.oa.points.ncols = 3
    /\ WellShaped(result.oa)
    /\ InRange(result.oa)
    /\ verdict = "true"

\* C7: on an OA whose column count differs from factors verify returns the
\* error ShapeMismatch instead of a boolean; on every well-shaped OA it
\* returns a boolean.
C7_ShapeMismatchError ==
    (pc = "verified" /\ via = "given")
        => IF WellShaped(result.oa) THEN verdict \in {"true", "false"}
           ELSE verdict = "ShapeMismatch"

-----------------------------------------------------------------------------
(* Properties of the SOA verifier *)

RECURSIVE SeqSum(_)
SeqSum(q) == IF q = << >> THEN 0 ELSE Head(q) + SeqSum(Tail(q))

\* every ordering of every partition of t into positive parts
Compositions(t) == {q \in UNION {[1..k -> 1..t] : k \in 1..t} : SeqSum(q) = t}

Stratified(soa, parts, cols) ==
    LET rows == 0..(soa.points.nrows - 1)
        strata == {f \in [1..Len(parts) -> 0..(Pow(soa.base, soa.strength) - 1)] :
                     \A k \in 1..Len(parts) : f[k] < Pow(soa.base, parts[k])}
        reduced(i) == [k \in 1..Len(parts) |->
                         soa.points.data[<<i, cols[k]>>]
                             \div Pow(soa.base, soa.strength - parts[k])]
        freq(f) == Cardinality({i \in rows : reduced(i) = f})
    IN  /\ \A i \in rows : reduced(i) \in strata
        /\ \A f \in strata : freq(f) >= 1
        /\ \A f, g \in strata : freq(f) = freq(g)

EveryOrderingStratified(soa) ==
    \A parts \in Compositions(soa.strength) :
        \A cols \in combinations(soa.points.ncols, Len(parts)) :
            Stratified(soa, parts, cols)

\* C8: the SOA verifier returns true exactly when, for every partition of
\* the strength, every ordering of its parts and every combination of as many
\* columns as parts, the reduced tuples cover all strata equally often.
C8_EveryOrderingChecked ==
    (pc = "soa_verified" /\ hist.method = "given")
        => (soaVerdict = "true" <=> EveryOrderingStratified(soaRes.soa))

\* C9: the SOA verifier returns true on the He-Tang 8 x 3 example, and false
\* on every array that differs in exactly one cell from an array on which it
\* returned true.
C9_OneCellChange ==
    /\ (pc = "soa_verified" /\ soaRes.soa = HeTangExample) => soaVerdict = "true"
    /\ (pc = "soa_verified" /\ hist.edits >= 1 /\ hist.parent = "true")
          => soaVerdict = "false"

C9_Witness ==
    /\ pc = "soa_verified"
    /\ hist.edits = 1
    /\ hist.parent = "true"
    /\ soaRes.soa.strength = 3
    /\ soaRes.soa.points.ncols = 3
    /\ soaVerdict = "false"

-----------------------------------------------------------------------------
(* The He-Tang pipeline on given strength-3 arrays *)

\* oa_to_goa and goa_to_soa are run on every strength-3 array of at most
\* MaxReduceRows rows, 2..MaxReduceFactors columns and cells below the levels,
\* for 1..MaxReduceLevels levels, and on the 8 x 4 array of test_soa_pipeline
MaxReduceRows == 1
MaxReduceFactors == 4
MaxReduceLevels == 2

\* the 8 x 4 two-level array of test_soa_pipeline
ThesisOA ==
    OA(2, 3, 4, 1, FromRows(<< <<0, 0, 0, 0>>, <<0, 0, 1, 1>>, <<0, 1, 0, 1>>,
                                <<0, 1, 1, 0>>, <<1, 0, 0, 1>>, <<1, 0, 1, 0>>,
                                <<1, 1, 0, 0>>, <<1, 1, 1, 1>> >>))

ReduceInputs ==
    {ThesisOA}
    \cup
    UNION {[levels : {s}, strength : {3}, factors : {m}, index : {1},
            points : Matrices(n, m, s - 1)] :
              s \in 1..MaxReduceLevels, m \in 2..MaxReduceFactors, n \in 0..MaxReduceRows}

InitHeTang ==
    /\ pc = "built"
    /\ ctor \in [kind : {"given"}, prime_base : {0}, strength : {0}, dimensions : {0}]
    /\ env \in [overflow_checks : {TRUE}, wide : {TRUE}]
    /\ via = "given"
    /\ checked = NoResult
    /\ allocs = 0
    /\ result \in {Ok(oa) : oa \in ReduceInputs}
    /\ verdict = "none"
    /\ par = NoPar
    /\ soaRes = NoSoaResult
    /\ soaVerdict = "none"
    /\ hist = NoHist
    /\ call = NoCall
    /\ ret = NoRet

\* oa_to_goa followed by goa_to_soa with some column count m_prime, the way
\* test_soa_pipeline calls them
Reduce ==
    /\ pc = "built"
    /\ \E m_prime \in 0..(result.oa.factors - 1) :
         LET goa == oa_to_goa(result.oa)
         IN  soaRes' = IF goa_to_soa_oob(goa, result.oa.strength, m_prime) THEN SoaPanic
                       ELSE SoaOk(SOA(result.oa.strength, result.oa.levels,
                                      goa_to_soa(goa, result.oa.strength,
                                                 result.oa.levels, m_prime)))
    /\ hist' = [hist EXCEPT !.method = "goa_to_soa"]
    /\ pc' = IF soaRes'.tag = "Ok" THEN "soa_built" ELSE "soa_failed"
    /\ UNCHANGED <<ctor, env, via, checked, allocs, result, verdict, par, soaVerdict, call, ret>>

NextHeTang ==
    \/ HeTangGen
    \/ Reduce

SpecHeTang == InitHeTang /\ [][NextHeTang]_vars

-----------------------------------------------------------------------------
(* Properties of the SOA constructors *)

\* C11: on every strength-3 OA built by Bush::gen for a prime base,
\* HeTang::gen succeeds and the SOA verifier returns true on its result.
C11_HeTangOnBush ==
    (/\ ctor.kind = "Bush"
     /\ ValidBush(ctor)
     /\ ctor.strength = 3
     /\ ctor.dimensions >= 3
     /\ ctor.dimensions <= ctor.prime_base
     /\ result.tag = "Ok"
     /\ hist.method = "HeTang")
        => /\ soaRes.tag = "Ok"
           /\ soaVerdict # "none" => soaVerdict = "true"

\* the array the He-Tang pipeline is documented to build: n x (m - 1), cell
\* (i, k) = s^2 * oa[i][k] + s * oa[i][m - 1] + oa[i][(k + 1) mod (m - 1)]
HeTangFormula(oa) ==
    LET s == oa.levels
        m == oa.factors
        at(i, j) == oa.points.data[<<i, j>>]
    IN  [nrows |-> oa.points.nrows, ncols |-> m - 1,
         data |-> [cell \in Cells(oa.points.nrows, m - 1) |->
                     (s * s * at(cell[1], cell[2])) + (s * at(cell[1], m - 1))
                         + at(cell[1], (cell[2] + 1) % (m - 1))]]

\* C12: HeTang::gen on a strength-3 OA with m factors and s levels returns the
\* n x (m - 1) array of HeTangFormula; on the 8 x 4 array of the thesis that
\* is the He-Tang example.
C12_HeTangCells ==
    (hist.method = "HeTang" /\ result.oa.strength = 3)
        => /\ soaRes = SoaOk(SOA(3, result.oa.levels, HeTangFormula(result.oa)))
           /\ result.oa = ThesisOA => soaRes.soa = HeTangExample

\* C18: every cell of the array goa_to_soa builds from an OA whose cells lie
\* in 0..levels-1 lies in 0..levels^strength-1.
C18_SoaCellRange ==
    (hist.method \in {"goa_to_soa", "HeTang"} /\ soaRes.tag = "Ok" /\ InRange(result.oa))
        => \A cell \in DOMAIN soaRes.soa.points.data :
              /\ soaRes.soa.points.data[cell] >= 0
              /\ soaRes.soa.points.data[cell]
                    < Pow(result.oa.levels, result.oa.strength)

C18_Witness ==
    /\ hist.method = "goa_to_soa"
    /\ soaRes.tag = "Ok"
    /\ result.oa = ThesisOA
    /\ soaRes.soa.points.ncols = 2
    /\ soaRes.soa.points.data[<<7, 1>>] = 7

\* the R matrix as Liu and Liu describe it for m = k * t + q: m rows, 2k
\* columns and one more iff q >= t / 2
LiuLiuCols(t, m) == (2 * (m \div t)) + (IF (m % t) >= (t \div 2) THEN 1 ELSE 0)

\* the extra column: base^0 .. base^(q-1) in the first q rows and
\* base^(t-1) .. base^(t-q) in the last q rows
LiuLiuExtraCell(s, t, m, i) ==
    LET q == m % t
    IN  IF i < q THEN Pow(s, i)
        ELSE IF i >= m - q THEN Pow(s, t - (m - i))
        ELSE 0

\* C13: the R matrix of LiuLiu for strength t and m = k * t + q factors has m
\* rows and 2k columns, plus one extra column iff q >= t / 2, which holds the
\* powers of the base; building R never indexes outside the matrix.
C13_LiuLiuRShape ==
    (hist.method = "LiuLiu" /\ result.oa.strength >= 1)
        => LET t == result.oa.strength
               m == result.oa.factors
               extra_col == (m % t) >= (t \div 2)
               r == gen_even_r(t, m, extra_col)
           IN  /\ ~gen_even_r_panics(t, m, extra_col)
               /\ r.nrows = m
               /\ r.ncols = LiuLiuCols(t, m)
               /\ extra_col =>
                    \A i \in 0..(m - 1) :
                        r.data[<<i, 2 * (m \div t)>>]
                            = LiuLiuExtraCell(result.oa.levels, t, m, i)

RECURSIVE DotSum(_, _, _, _, _)
DotSum(a, b, i, j, l) ==
    IF l >= a.ncols THEN 0
    ELSE (a.data[<<i, l>>] * b.data[<<l, j>>]) + DotSum(a, b, i, j, l + 1)

\* the matrix product of an n x m and an m x c array
MatMul(a, b) ==
    [nrows |-> a.nrows, ncols |-> b.ncols,
     data |-> [cell \in Cells(a.nrows, b.ncols) |-> DotSum(a, b, cell[1], cell[2], 0)]]

\* C14: LiuLiu::gen returns an SOA whose points are the matrix product of the
\* OA's n x m points and the m x c matrix R, with the OA's strength and levels
\* as strength and base.
C14_LiuLiuProduct ==
    (hist.method = "LiuLiu" /\ result.oa.strength >= 1)
        => LET t == result.oa.strength
               m == result.oa.factors
               r == gen_even_r(t, m, (m % t) >= (t \div 2))
           IN  /\ soaRes.tag = "Ok"
               /\ soaRes.soa.strength = t
               /\ soaRes.soa.base = result.oa.levels
               /\ r.nrows = m
               /\ soaRes.soa.points = MatMul(result.oa.points, r)

-----------------------------------------------------------------------------
(* Cell formulas and consistency of the constructed arrays *)

\* C15: Bose construction computes column 0 = floor(i / p), column 1 = i mod p
\* and column j >= 2 = (column 0 + (j - 1) * column 1) mod p, for every row i
\* in 0..p^2-1; Bose(2, 2) and Bose(3, 3) are the arrays of the tests.
C15_BoseCells ==
    (ctor.kind = "Bose" /\ ValidBose(ctor) /\ Constructed /\ result.tag = "Ok")
        => LET p == ctor.prime_base
               pts == result.oa.points
           IN  /\ pts.nrows = p * p
               /\ pts.ncols = ctor.dimensions
               /\ \A i \in 0..(pts.nrows - 1) :
                    /\ pts.data[<<i, 0>>] = i \div p
                    /\ pts.data[<<i, 1>>] = i % p
                    /\ \A j \in 2..(pts.ncols - 1) :
                         pts.data[<<i, j>>]
                            = (pts.data[<<i, 0>>] + ((j - 1) * pts.data[<<i, 1>>])) % p
               /\ (p = 2 /\ ctor.dimensions = 2)
                    => pts = FromRows(<< <<0, 0>>, <<0, 1>>, <<1, 0>>, <<1, 1>> >>)
               /\ (p = 3 /\ ctor.dimensions = 3)
                    => pts = FromRows(<< <<0, 0, 0>>, <<0, 1, 1>>, <<0, 2, 2>>,
                                         <<1, 0, 1>>, <<1, 1, 2>>, <<1, 2, 0>>,
                                         <<2, 0, 2>>, <<2, 1, 0>>, <<2, 2, 1>> >>)

C15_Witness ==
    /\ ctor.kind = "Bose"
    /\ ctor.prime_base = 3
    /\ ctor.dimensions = 3
    /\ via = "gen"
    /\ result.tag = "Ok"
    /\ result.oa.points.data[<<5, 2>>] = 0

\* sum over k of d_k * j^k, d_k the k-th base-p digit of i, least significant
\* digit first
RECURSIVE DigitPoly(_, _, _, _, _)
DigitPoly(i, p, t, j, k) ==
    IF k >= t THEN 0
    ELSE (((i \div Pow(p, k)) % p) * Pow(j, k)) + DigitPoly(i, p, t, j, k + 1)

\* C16: Bush construction computes, for every row i in 0..p^t-1 and every
\* column j < min(dimensions, p), (sum over k of d_k * j^k) mod p; when
\* dimensions = p + 1 the extra column p of every row, row 0 included, holds
\* (i - 1) mod p, without underflow or a failed conversion.
C16_BushCells ==
    (ctor.kind = "Bush" /\ ValidBush(ctor) /\ Constructed)
        => LET p == ctor.prime_base
               t == ctor.strength
               pts == result.oa.points
           IN  /\ result.tag = "Ok"
               /\ pts.nrows = Pow(p, t)
               /\ pts.ncols = ctor.dimensions
               /\ \A i \in 0..(pts.nrows - 1) :
                    /\ \A j \in 0..(Min(ctor.dimensions, p) - 1) :
                         pts.data[<<i, j>>] = DigitPoly(i, p, t, j, 0) % p
                    /\ ctor.dimensions = p + 1
                         => pts.data[<<i, p>>] = (i - 1) % p

\* C19: every OA returned by Bose or Bush construction (gen or gen_par) for
\* validated parameters has levels^strength rows, factors = dimensions columns,
\* index 1, levels = prime_base, strength 2 (Bose) or t (Bush), and every cell
\* in 0..levels-1.
C19_ConstructedConsistent ==
    (/\ Constructed
     /\ result.tag = "Ok"
     /\ \/ ctor.kind = "Bose" /\ ValidBose(ctor)
        \/ ctor.kind = "Bush" /\ ValidBush(ctor))
        => LET oa == result.oa
           IN  /\ oa.points.nrows = Pow(oa.levels, oa.strength)
               /\ oa.points.ncols = oa.factors
               /\ oa.factors = ctor.dimensions
               /\ oa.index = 1
               /\ oa.levels = ctor.prime_base
               /\ oa.strength = (IF ctor.kind = "Bose" THEN 2 ELSE ctor.strength)
               /\ DOMAIN oa.points.data = Cells(oa.points.nrows, oa.points.ncols)
               /\ \A cell \in DOMAIN oa.points.data :
                    oa.points.data[cell] \in 0..(oa.levels - 1)

C19_Witness ==
    /\ ctor.kind = "Bush"
    /\ ctor.prime_base = 3
    /\ ctor.strength = 2
    /\ ctor.dimensions = 4
    /\ Constructed
    /\ result.tag = "Ok"
    /\ result.oa.points.nrows = 9
    /\ result.oa.points.data[<<8, 2>>] = 0

-----------------------------------------------------------------------------
(* Writes of the parallel tasks *)

\* the cells a task may write: its own cell (Bose), its own row (Bush)
OwnCells(task) ==
    IF ctor.kind = "Bose" THEN {task}
    ELSE {<<task, j>> : j \in 0..Min(ctor.dimensions, ctor.prime_base)}

BlockCells(block) ==
    IF block = "initial_points"
        THEN Cells(par.initial_points.nrows, par.initial_points.ncols)
        ELSE Cells(par.points.nrows, par.points.ncols)

\* the block cell behind cell (i, j) of the array gen_par returns
BlockCellOf(i, j) ==
    IF j < par.initial_points.ncols THEN <<"initial_points", i, j>>
    ELSE <<"points", i, j - par.initial_points.ncols>>

\* C20: in Bose::gen_par and Bush::gen_par, under every interleaving, a cell
\* is never written twice or by two tasks, a task writes only cells of its own
\* view inside its block, and every cell of the array that is returned has
\* been written by exactly one task exactly once.
C20_DisjointWrites ==
    /\ \A k \in DOMAIN par.writes :
          /\ Len(par.writes[k]) = 1
          /\ <<k[2], k[3]>> \in BlockCells(k[1])
          /\ <<k[2], k[3]>> \in OwnCells(par.writes[k][1])
    /\ (par.phase = "joined" /\ result.tag = "Ok")
          => \A cell \in DOMAIN result.oa.points.data :
                /\ BlockCellOf(cell[1], cell[2]) \in DOMAIN par.writes
                /\ Len(par.writes[BlockCellOf(cell[1], cell[2])]) = 1

C20_Witness ==
    /\ ctor.kind = "Bose"
    /\ ctor.dimensions = 3
    /\ par.phase = "joined"
    /\ result.tag = "Ok"
    /\ Cardinality(DOMAIN par.writes) = 12
    /\ par.writes[<<"points", 3, 0>>] = << <<3, 0>> >>

-----------------------------------------------------------------------------
(* Ordering and visibility in the parallel constructions *)

SeedCells == Cells(par.initial_points.nrows, 2)

\* C21: in Bose::gen_par no task of a column j >= 2 runs before every cell of
\* the seed columns 0 and 1 has been written, and the seed block does not
\* change afterwards: what a dependent-column task reads is final.
C21_SeedBeforeDependent ==
    [][(ctor.kind = "Bose" /\ pc = "par")
          => /\ (par'.done2 # par.done2)
                   => /\ par.done1 = SeedCells
                      /\ \A cell \in SeedCells :
                            <<"initial_points", cell[1], cell[2]>> \in DOMAIN par.writes
             /\ (par.phase = "rest" \/ par.done2 # {})
                   => par'.initial_points = par.initial_points]_vars

C21_Witness ==
    /\ ctor.kind = "Bose"
    /\ ctor.dimensions = 3
    /\ pc = "par"
    /\ par.phase = "rest"
    /\ Cardinality(par.done2) = 2

ParVia == via \in {"gen_par", "gen_par_validating"}

\* the tasks of the blocks of a gen_par call: cells (Bose), rows (Bush)
Tasks1 ==
    IF ctor.kind = "Bose" THEN SeedCells ELSE 0..(par.initial_points.nrows - 1)

Tasks2 ==
    IF ctor.kind = "Bose" THEN Cells(par.points.nrows, par.points.ncols)
    ELSE IF Bush_has_last(ctor) THEN 0..(par.points.nrows - 1)
    ELSE {}

\* C22: the caller of gen_par holds no array while tasks run, and an array it
\* holds was returned after every task of every block had completed and the
\* blocks had been put together: it has no cell that is still to be written.
C22_NoPartialResult ==
    /\ pc = "par" => result = NoResult
    /\ (ParVia /\ result.tag = "Ok")
          => /\ par.phase = "joined"
             /\ par.done1 = Tasks1
             /\ par.done2 = Tasks2
             /\ result.oa.points =
                   (IF Tasks2 = {} /\ ctor.kind = "Bush" THEN par.initial_points
                    ELSE concatenate(par.initial_points, par.points))

C22_Witness ==
    /\ ctor.kind = "Bush"
    /\ ctor.dimensions = 3
    /\ ParVia
    /\ result.tag = "Ok"
    /\ par.done2 = {0, 1}

-----------------------------------------------------------------------------
(* Termination *)

\* the steps inside a running gen_par: rayon runs every task of a for_each and
\* the call goes on once they are done
ParStep ==
    \/ BoseSeedTask
    \/ BoseSeedJoin
    \/ BoseRestTask
    \/ BoseConcat
    \/ BushRowTask
    \/ BushRowsJoin
    \/ BushLastTask
    \/ BushStack

\* the calls of gen_par: validation, the start of the call and its steps
NextPar ==
    \/ BoseCheckedVerify
    \/ BushCheckedVerify
    \/ BoseGenParStart
    \/ BoseGenParValidatingStart
    \/ BushGenParStart
    \/ ParStep

SpecFair == Init /\ [][NextPar]_vars /\ WF_vars(ParStep)

\* under fair scheduling a running gen_par comes to an end, with a result or
\* with the panic of one of its tasks
ParEnds == (pc = "par") ~> (pc # "par" /\ result.tag \in {"Ok", "Err", "Panic"})

\* C23: every call of gen_par, under fair scheduling of its tasks, eventually
\* terminates with a result (an array or an error).
C23_Terminates == (pc = "par") ~> (pc # "par" /\ result.tag \in {"Ok", "Err"})

-----------------------------------------------------------------------------
(* galois.rs: prim_poly *)

\* the while loop of prim_poly: power_sum is overwritten at every bit
RECURSIVE prim_poly_power_sum(_, _, _)
prim_poly_power_sum(temp_candidate, idx, power_sum) ==
    IF temp_candidate <= 0 THEN power_sum
    ELSE prim_poly_power_sum(temp_candidate \div 2, idx + 1, (temp_candidate % 2) * idx)

\* the `for i in (1..power_raised).rev()` loop; Option as [some, value]
RECURSIVE prim_poly_loop(_, _)
prim_poly_loop(power_raised, i) ==
    IF i < 1 THEN [some |-> FALSE, value |-> 0]
    ELSE LET candidate == power_raised + i
         IN  IF IsPrime(prim_poly_power_sum(candidate, 0, 0))
                 THEN [some |-> TRUE, value |-> candidate]
                 ELSE prim_poly_loop(power_raised, i - 1)

prim_poly(power) == prim_poly_loop(Pow(2, power), Pow(2, power) - 1)

-----------------------------------------------------------------------------
(* The utility functions on given arguments *)

\* to_base_fixed and poly_eval are run on every number 0..MaxNum in every
\* base 1..MaxDigitBase with 0..MaxDegree digits, sum_perms on 0..MaxSum and
\* prim_poly on the powers 0..MaxPower
MaxNum == 30
MaxDigitBase == 4
MaxDegree == 3
MaxSum == 5
MaxPower == 4

UtilCalls ==
    [fn : {"to_base_fixed"}, num : 0..MaxNum, base : 1..MaxDigitBase, degree : 0..MaxDegree]
    \cup [fn : {"sum_perms"}, num : 0..MaxSum, base : {0}, degree : {0}]
    \cup [fn : {"prim_poly"}, num : 0..MaxPower, base : {0}, degree : {0}]

InitUtils ==
    /\ pc = "call"
    /\ ctor \in [kind : {"given"}, prime_base : {0}, strength : {0}, dimensions : {0}]
    /\ env \in [overflow_checks : {TRUE}, wide : {TRUE}]
    /\ via = "given"
    /\ checked = NoResult
    /\ allocs = 0
    /\ result = NoResult
    /\ verdict = "none"
    /\ par = NoPar
    /\ soaRes = NoSoaResult
    /\ soaVerdict = "none"
    /\ hist = NoHist
    /\ call \in UtilCalls
    /\ ret = NoRet

UtilFrame ==
    UNCHANGED <<ctor, env, via, checked, allocs, result, verdict, par, soaRes,
                soaVerdict, hist, call>>

ToBaseFixed ==
    /\ pc = "call"
    /\ call.fn = "to_base_fixed"
    /\ ret' = [ret EXCEPT !.digits = to_base_fixed(call.num, call.base, call.degree)]
    /\ pc' = "digits"
    /\ UtilFrame

\* poly_eval on the digits, in the base they were written in
PolyEval ==
    /\ pc = "digits"
    /\ ret' = [ret EXCEPT !.value = poly_eval(ret.digits, call.base)]
    /\ pc' = "returned"
    /\ UtilFrame

SumPerms ==
    /\ pc = "call"
    /\ call.fn = "sum_perms"
    /\ ret' = [ret EXCEPT !.list = sum_perms(call.num)]
    /\ pc' = "returned"
    /\ UtilFrame

PrimPoly ==
    /\ pc = "call"
    /\ call.fn = "prim_poly"
    /\ LET p == prim_poly(call.num)
       IN  ret' = [ret EXCEPT !.some = p.some, !.value = p.value]
    /\ pc' = "returned"
    /\ UtilFrame

NextUtils ==
    \/ ToBaseFixed
    \/ PolyEval
    \/ SumPerms
    \/ PrimPoly

SpecUtils == InitUtils /\ [][NextUtils]_vars

-----------------------------------------------------------------------------
(* Properties of the utility functions *)

\* C24: to_base_fixed(n, b, d) returns exactly d digits, each in 0..b-1, the
\* k-th being the k-th base-b digit of n from the least significant one (zero
\* when n is short, the high digits of n dropped when n >= b^d), and poly_eval
\* of the digits in base b is n mod b^d, which is n whenever n < b^d.
C24_DigitsRoundTrip ==
    (call.fn = "to_base_fixed" /\ pc \in {"digits", "returned"})
        => /\ Len(ret.digits) = call.degree
           /\ \A k \in 1..call.degree :
                 /\ ret.digits[k] \in 0..(call.base - 1)
                 /\ ret.digits[k] = (call.num \div Pow(call.base, k - 1)) % call.base
           /\ pc = "returned"
                 => /\ ret.value = call.num % Pow(call.base, call.degree)
                    /\ call.num < Pow(call.base, call.degree) => ret.value = call.num

C24_Witness ==
    /\ call = [fn |-> "to_base_fixed", num |-> 9, base |-> 2, degree |-> 3]
    /\ pc = "returned"
    /\ ret.digits = <<1, 0, 0>>
    /\ ret.value = 1

\* the partitions of n into positive parts, written as non-decreasing sequences
Partitions(n) ==
    {q \in Compositions(n) : \A k \in 1..(Len(q) - 1) : q[k] <= q[k + 1]}

\* C25: sum_perms(n) for n >= 1 returns every partition of n into positive
\* parts as a non-decreasing sequence, each exactly once; for n = 5 these are
\* the seven partitions of the test.
C25_SumPermsPartitions ==
    (call.fn = "sum_perms" /\ pc = "returned" /\ call.num >= 1)
        => LET returned == {ret.list[k] : k \in 1..Len(ret.list)}
           IN  /\ returned = Partitions(call.num)
               /\ Cardinality(returned) = Len(ret.list)
               /\ \A q \in returned : SeqSum(q) = call.num
               /\ call.num = 5
                    => returned = {<<1, 1, 1, 1, 1>>, <<1, 1, 1, 2>>, <<1, 2, 2>>,
                                   <<1, 1, 3>>, <<2, 3>>, <<1, 4>>, <<5>>}

C25_Witness ==
    /\ call.fn = "sum_perms"
    /\ call.num = 5
    /\ pc = "returned"
    /\ Len(ret.list) = 7

\* C26: prim_poly(power) returns Some(7) for power 2, Some(15) for power 3
\* and Some(17) for power 4, and None for none of them.
C26_PrimPolyValues ==
    (call.fn = "prim_poly" /\ pc = "returned")
        => /\ call.num = 2 => (ret.some /\ ret.value = 7)
           /\ call.num = 3 => (ret.some /\ ret.value = 15)
           /\ call.num = 4 => (ret.some /\ ret.value = 17)

-----------------------------------------------------------------------------
(* Cell ranges and the verifiers *)

\* C27: whenever oa::verify returns true for an OA with strength <= factors,
\* every cell lies in 0..levels-1 and the array has index * levels^strength
\* rows; an array with a cell >= levels is never accepted.
C27_AcceptedInRange ==
    (pc = "verified" /\ verdict = "true" /\ result.oa.strength <= result.oa.factors)
        => /\ InRange(result.oa)
           /\ result.oa.points.nrows
                 = result.oa.index * Pow(result.oa.levels, result.oa.strength)

\* C28: for an SOA with strength >= 1 and at least one column, soa::verify
\* returns false if some cell is >= base^strength.
C28_OutOfRangeRejected ==
    (/\ pc = "soa_verified"
     /\ soaRes.soa.strength >= 1
     /\ soaRes.soa.points.ncols >= 1
     /\ \E cell \in DOMAIN soaRes.soa.points.data :
           soaRes.soa.points.data[cell] >= Pow(soaRes.soa.base, soaRes.soa.strength))
        => soaVerdict = "false"

C28_Witness ==
    /\ pc = "soa_verified"
    /\ soaRes.soa.strength = 3
    /\ soaRes.soa.points.ncols = 3
    /\ soaRes.soa.points.data[<<2, 1>>] = 8
    /\ soaVerdict = "false"

\* C29: for every tuple of signed integers BoseChecked::verify and
\* BushChecked::verify end with Ok or with InvalidParams and never panic; a
\* prime_base that is zero or negative is rejected with InvalidParams whatever
\* the other parameters are.
C29_ValidationNeverPanics ==
    (checked # NoResult)
        => /\ checked.tag \in {"Ok", "Err"}
           /\ checked.tag = "Err" => checked.err = "InvalidParams"
           /\ ctor.prime_base <= 0 => checked = Err("InvalidParams")

\* C30: in HeTang::gen on a strength-3 OA with at least 3 factors, the column
\* count handed to goa_to_soa is the number of 3-column groups oa_to_goa
\* built, every GOA column 3 * col + offset read is inside the GOA, and the
\* reduction does not index out of bounds.
C30_ReductionInBounds ==
    (hist.method = "HeTang" /\ result.oa.strength = 3 /\ result.oa.factors >= 3)
        => LET m_prime == result.oa.factors - 1
               goa == oa_to_goa(result.oa)
           IN  /\ m_prime = goa_groups(result.oa)
               /\ \A g \in goa_reads(result.oa.strength, m_prime) : g < goa.ncols
               /\ soaRes.tag # "Panic"

=============================================================================
